---- MODULE Spec2Model ----
(***************************************************************************)
(* Model of AstrophotoKit's C glue between Swift and the CFITSIO engine:   *)
(*   Sources/CAstrophotoKit/cfitsio_wrapper.c   (impl = "CAstrophotoKit")   *)
(*   Sources/CCFITSIO/cfitsio_wrapper.c         (impl = "CCFITSIO")         *)
(* Every wrapper forwards its arguments to one engine primitive.  The      *)
(* engine itself (fits_open_file, fits_close_file, ... fits_read_pix) is    *)
(* not part of the sources; its primitives are modelled from the           *)
(* specification's description of the format engine (sections 3, 4, 6, 7). *)
(* A call on a released resource and a read of an uninitialised local are  *)
(* undefined behaviour in C: they are modelled as a choice over outcomes.  *)
(***************************************************************************)
EXTENDS Integers, Sequences, FiniteSets

VARIABLES impl, file, res, curhdu, closeApplied, call

vars == <<impl, file, res, curhdu, closeApplied, call>>

----------------------------------------------------------------------------
(* Bounds of the model *)

\* width, in bits, of the model's C `long` (the decoder's narrow type);
\* LONGLONG values are unbounded integers of the model
LongBits == 4
\* engine close calls recorded per resource
MaxCloses == 3
\* largest maxdim argument a caller passes to imageParameters
MaxDimArg == 4
\* largest naxis argument (and argument-array length) a caller passes to readPixels
MaxNaxisArg == 4

----------------------------------------------------------------------------
(* Integer widths *)

RECURSIVE Pow2(_)
Pow2(n) == IF n = 0 THEN 1 ELSE 2 * Pow2(n - 1)

LongMod == Pow2(LongBits)
LONG_MAX == LongMod \div 2 - 1
LONG_MIN == 0 - (LongMod \div 2)

FitsLong(x) == LONG_MIN <= x /\ x <= LONG_MAX

\* the cast (long)x of a LONGLONG x: the low LongBits bits, two's complement
ToLong(x) ==
    LET m == x % LongMod
    IN  IF m > LONG_MAX THEN m - LongMod ELSE m

\* a LONGLONG argument that does not fit long
Big == LongMod + 1

RECURSIVE Product(_)
Product(s) == IF s = <<>> THEN 1 ELSE Head(s) * Product(Tail(s))

Min(a, b) == IF a < b THEN a ELSE b
Max(a, b) == IF a < b THEN b ELSE a

\* values an indeterminate (uninitialised or out-of-bounds) long can read as
Indeterminate == {0, 5}

----------------------------------------------------------------------------
(* The files on disk: each a sequence of HDUs *)

Image(axes, nkeys) == [type |-> "image", naxes |-> axes, keys |-> nkeys]
Table(nkeys) == [type |-> "table", naxes |-> <<>>, keys |-> nkeys]

Files ==
    << <<Image(<<2, 3>>, 2)>>,
       <<Image(<<>>, 1), Table(2), Image(<<2, 1, 2, 2>>, 1)>>,
       <<Image(<<3>>, 1), Image(<<2, 1, 3>>, 2)>> >>

NoFile == 0

HDUs == IF file = NoFile THEN <<>> ELSE Files[file]
CHDU == HDUs[curhdu]

----------------------------------------------------------------------------
(* The format engine's primitives (specification section 6).  Each yields  *)
(* the set of outcomes the call can have; `applied` records the state of   *)
(* the resource the primitive was applied to.  Applied to a released       *)
(* resource the primitive reads freed memory: its status and outputs are   *)
(* indeterminate.                                                          *)

DanglingStatus == {"OK", "BAD_FILEPTR"}

fits_open_file(f) ==
    IF f = NoFile
    THEN {[status |-> "FILE_NOT_OPENED", applied |-> res, res |-> "null", file |-> NoFile, cur |-> 0]}
    ELSE {[status |-> "OK", applied |-> res, res |-> "live", file |-> f, cur |-> 1]}

fits_close_file ==
    IF res = "live"
    THEN {[status |-> "OK", applied |-> "live", res |-> "freed"]}
    ELSE {[status |-> s, applied |-> res, res |-> res] : s \in DanglingStatus}

fits_get_num_hdus ==
    IF res = "live"
    THEN {[status |-> "OK", applied |-> "live", cur |-> curhdu, numhdus |-> Len(HDUs)]}
    ELSE {[status |-> s, applied |-> res, cur |-> curhdu, numhdus |-> v] :
             s \in DanglingStatus, v \in Indeterminate}

fits_movabs_hdu(hdunum) ==
    IF res = "live"
    THEN IF hdunum < 1
         THEN {[status |-> "BAD_HDU_NUM", applied |-> "live", cur |-> curhdu, hdutype |-> "none"]}
         ELSE IF hdunum > Len(HDUs)
         THEN {[status |-> "END_OF_FILE", applied |-> "live", cur |-> curhdu, hdutype |-> "none"]}
         ELSE {[status |-> "OK", applied |-> "live", cur |-> hdunum, hdutype |-> HDUs[hdunum].type]}
    ELSE {[status |-> s, applied |-> res, cur |-> curhdu, hdutype |-> "none"] : s \in DanglingStatus}

fits_get_hdrspace ==
    IF res = "live"
    THEN {[status |-> "OK", applied |-> "live", cur |-> curhdu, nexist |-> CHDU.keys, nmore |-> 0]}
    ELSE {[status |-> s, applied |-> res, cur |-> curhdu, nexist |-> v, nmore |-> 0] :
             s \in DanglingStatus, v \in Indeterminate}

fits_read_keyn(nkey) ==
    IF res = "live"
    THEN IF nkey < 1 \/ nkey > CHDU.keys
         THEN {[status |-> "KEY_OUT_BOUNDS", applied |-> "live", cur |-> curhdu, key |-> <<>>]}
         ELSE {[status |-> "OK", applied |-> "live", cur |-> curhdu, key |-> <<file, curhdu, nkey>>]}
    ELSE {[status |-> s, applied |-> res, cur |-> curhdu, key |-> <<>>] : s \in DanglingStatus}

\* The engine writes the first min(naxis, maxdim) axis lengths into the array it
\* is given and leaves the rest of it alone; on a non-image HDU it writes none.
\* `written` is the number of entries it writes.
fits_get_img_param(maxdim) ==
    IF res = "live"
    THEN IF CHDU.type # "image"
         THEN {[status |-> "NOT_IMAGE", applied |-> "live", cur |-> curhdu,
                naxis |-> 0, written |-> 0, lengths |-> <<>>]}
         ELSE LET k == Max(0, Min(Len(CHDU.naxes), maxdim))
              IN  {[status |-> "OK", applied |-> "live", cur |-> curhdu,
                    naxis |-> Len(CHDU.naxes), written |-> k,
                    lengths |-> SubSeq(CHDU.naxes, 1, k)]}
    ELSE {[status |-> s, applied |-> res, cur |-> curhdu,
           naxis |-> 0, written |-> 0, lengths |-> <<>>] : s \in DanglingStatus}

\* number of pixels of the current HDU's image (0 when it has no axes)
PixelCount == IF CHDU.naxes = <<>> THEN 0 ELSE Product(CHDU.naxes)

\* The linear pixel run [first, first + nelem - 1] of the current image, decoded
\* into the caller's array; `start` is the start argument as the primitive
\* received it.  A window outside the image is rejected before any element is
\* decoded; an I/O or conversion failure can strike after any number of elements
\* have been written to the array.
DecodeRun(start, first, nelem) ==
    IF CHDU.type # "image"
    THEN {[status |-> "NOT_IMAGE", applied |-> "live", cur |-> curhdu, start |-> start,
           nelements |-> nelem, filled |-> 0]}
    ELSE IF nelem < 0 \/ first < 1 \/ first + nelem - 1 > PixelCount
    THEN {[status |-> "BAD_PIX_NUM", applied |-> "live", cur |-> curhdu, start |-> start,
           nelements |-> nelem, filled |-> 0]}
    ELSE {[status |-> "OK", applied |-> "live", cur |-> curhdu, start |-> start,
           nelements |-> nelem, filled |-> nelem]}
         \cup
         {[status |-> "READ_ERROR", applied |-> "live", cur |-> curhdu, start |-> start,
           nelements |-> nelem, filled |-> k] : k \in 0..(nelem - 1)}

DanglingRun(start, nelem) ==
    {[status |-> s, applied |-> res, cur |-> curhdu, start |-> start,
      nelements |-> nelem, filled |-> 0] : s \in DanglingStatus}

\* fits_read_img: a run given by its linear first element
fits_read_img(firstelem, nelem) ==
    IF res = "live"
    THEN DecodeRun(<<firstelem>>, firstelem, nelem)
    ELSE DanglingRun(<<firstelem>>, nelem)

\* linear offset of the coordinate fpixel in an image of axis lengths naxes
RECURSIVE LinearOffset(_, _)
LinearOffset(fpixel, naxes) ==
    IF naxes = <<>> THEN 0
    ELSE (Head(fpixel) - 1) + Head(naxes) * LinearOffset(Tail(fpixel), Tail(naxes))

\* the sequences of length n over the set S
SeqsOf(S, n) == [1..n -> S]

\* fits_read_pix: a run given by the coordinate of its first pixel.  The engine
\* reads one entry of fpixel per axis of the image: entries past the end of the
\* array it was handed are indeterminate.
fits_read_pix(fpixel, nelem) ==
    IF res = "live"
    THEN UNION { DecodeRun(fpixel, 1 + LinearOffset(fpixel \o pad, CHDU.naxes), nelem) :
                    pad \in SeqsOf(Indeterminate, Max(0, Len(CHDU.naxes) - Len(fpixel))) }
    ELSE DanglingRun(fpixel, nelem)

----------------------------------------------------------------------------
(* The wrappers.  Except for the image-parameter wrapper of CAstrophotoKit *)
(* and the two pixel-read wrappers, each is the same single forwarding     *)
(* call in both translation units.                                         *)

MAX_AXES == 3

fits_open_file_wrapper(f) == fits_open_file(f)

fits_close_file_wrapper == fits_close_file

fits_get_num_hdus_wrapper == fits_get_num_hdus

\* mutant: the 1-based index taken for a 0-based one
fits_movabs_hdu_wrapper_zero_based(hdunum) == fits_movabs_hdu(hdunum + 1)

fits_movabs_hdu_wrapper(hdunum) == fits_movabs_hdu(hdunum)

\* mutant: the header is counted after rewinding to the primary HDU
fits_get_hdrspace_wrapper_rewinding ==
    IF res = "live"
    THEN {[o EXCEPT !.cur = 1, !.nexist = HDUs[1].keys] : o \in fits_get_hdrspace}
    ELSE fits_get_hdrspace

fits_get_hdrspace_wrapper == fits_get_hdrspace

fits_read_keyn_wrapper(nkey) == fits_read_keyn(nkey)

\* CAstrophotoKit: the engine writes into the local long naxes_long[3], whose
\* entries start uninitialised; all three are then copied to the caller's array.
\* `asked` is the number of entries the engine writes into the local array,
\* `uninit` the indices copied out that the engine did not write.
fits_get_img_param_wrapper_CAstrophotoKit(maxdim) ==
    { [status |-> o.status, applied |-> o.applied, cur |-> o.cur, naxis |-> o.naxis,
       asked |-> o.written,
       naxes |-> [i \in 1..MAX_AXES |-> IF i <= o.written THEN o.lengths[i] ELSE g[i]],
       uninit |-> {i \in 1..MAX_AXES : i > o.written}] :
         o \in fits_get_img_param(maxdim), g \in SeqsOf(Indeterminate, MAX_AXES) }

\* CCFITSIO: the engine writes straight into the caller's array (which the
\* caller initialised, here to zeros); nothing is copied from a local.
fits_get_img_param_wrapper_CCFITSIO(maxDimensions) ==
    { [status |-> o.status, applied |-> o.applied, cur |-> o.cur, naxis |-> o.naxis,
       asked |-> 0,
       naxes |-> [i \in 1..Max(MAX_AXES, o.written) |->
                     IF i <= o.written THEN o.lengths[i] ELSE 0],
       uninit |-> {}] :
         o \in fits_get_img_param(maxDimensions) }

\* a * b in C long: signed overflow is undefined; the build wraps it or leaves
\* an indeterminate value
LongMul(a, b) ==
    IF FitsLong(a * b) THEN {a * b} ELSE {ToLong(a * b)} \cup Indeterminate

\* long totalElements = total; for each entry n of s: totalElements *= n
RECURSIVE LongProducts(_, _)
LongProducts(total, s) ==
    IF s = <<>> THEN {total}
    ELSE UNION { LongProducts(t, Tail(s)) : t \in LongMul(total, Head(s)) }

\* CCFITSIO: narrow the first min(naxis, 3) entries to long, multiply the counts
\* in long and call fits_read_pix with the 3-entry start and the total.
fits_read_img_wrapper_CCFITSIO(naxis, firstPixel, numElements) ==
    LET dimsToCopy == IF naxis < 3 THEN naxis ELSE 3
        firstPixelLong == [i \in 1..3 |-> IF i <= dimsToCopy THEN ToLong(firstPixel[i]) ELSE 1]
        numElementsLong == [i \in 1..3 |-> IF i <= dimsToCopy THEN ToLong(numElements[i]) ELSE 1]
    IN  UNION { fits_read_pix(firstPixelLong, totalElements) :
                   totalElements \in LongProducts(1, SubSeq(numElementsLong, 1, dimsToCopy)) }

\* CAstrophotoKit: call fits_read_img with *fpixel and *nelements, the first
\* entry of each array.
fits_read_img_wrapper_CAstrophotoKit(fpixel, nelements) ==
    fits_read_img(fpixel[1], nelements[1])

fits_get_img_param_wrapper(maxdim) ==
    IF impl = "CAstrophotoKit"
    THEN fits_get_img_param_wrapper_CAstrophotoKit(maxdim)
    ELSE fits_get_img_param_wrapper_CCFITSIO(maxdim)

fits_read_img_wrapper(naxis, fpixel, nelements) ==
    IF impl = "CAstrophotoKit"
    THEN fits_read_img_wrapper_CAstrophotoKit(fpixel, nelements)
    ELSE fits_read_img_wrapper_CCFITSIO(naxis, fpixel, nelements)

----------------------------------------------------------------------------
(* Status Translator (specification sections 4.1 and 7): the error kind the *)
(* caller sees for an operation's status.  HandleClosed is not the          *)
(* translation of any engine status: only a closed check ahead of the       *)
(* engine could produce it.                                                  *)

translate(op, status) ==
    IF status = "OK" THEN "OK"
    ELSE IF status = "HANDLE_CLOSED" THEN "HandleClosed"
    ELSE IF op = "open" THEN "OpenFailed"
    ELSE IF op = "seek" /\ status \in {"BAD_HDU_NUM", "END_OF_FILE"} THEN "InvalidHDUIndex"
    ELSE IF op = "readKey" /\ status = "KEY_OUT_BOUNDS" THEN "KeyNotFound"
    ELSE IF op = "imageParameters" /\ status = "NOT_IMAGE" THEN "NotAnImageHDU"
    ELSE IF op = "readPixels" THEN "ReadFailed"
    ELSE "FormatError"

----------------------------------------------------------------------------
(* Arguments callers pass *)

MaxHduArg == 4
MaxKeyArg == 3

HduArgs == (0 - 1)..MaxHduArg
KeyArgs == 0..MaxKeyArg
MaxDimArgs == 1..MaxDimArg
NaxisArgs == (0 - 1)..MaxNaxisArg

Ones(n) == [i \in 1..n |-> 1]

\* sequences of length n over S in which at most one entry is not in {1, 2}
AtMostOneBig(S, n) ==
    {s \in SeqsOf(S, n) : Cardinality({i \in 1..n : s[i] \notin {1, 2}}) <= 1}

\* start coordinates: all ones but for at most one entry
FirstPixelArgs(n) ==
    {s \in SeqsOf({1, 2, Big}, n) : Cardinality({i \in 1..n : s[i] # 1}) <= 1}
\* per-axis counts
ElementCountArgs(n) == AtMostOneBig({1, 2, Big}, n)

\* the <<firstPixel, elementCounts>> pairs passed for n axes: the counts vary
\* with the start at the origin, the start varies with unit counts
PixelArgs(n) ==
    {<<Ones(n), ne>> : ne \in ElementCountArgs(n)}
        \cup {<<fp, Ones(n)>> : fp \in FirstPixelArgs(n)}

----------------------------------------------------------------------------
(* State machine: one handle, from open to close and beyond *)

Impls == {"CAstrophotoKit", "CCFITSIO"}

NoCall == [op |-> "none", args |-> <<>>, ret |-> [status |-> "OK", applied |-> "null"]]

Init ==
    /\ impl \in Impls
    /\ file = NoFile
    /\ res = "null"
    /\ curhdu = 0
    /\ closeApplied = 0
    /\ call = NoCall

\* open(path, mode): a handle exists only after a successful open
Open ==
    /\ res = "null"
    /\ \E f \in {NoFile} \cup (1..Len(Files)) :
         \E o \in fits_open_file_wrapper(f) :
            /\ res' = o.res
            /\ file' = o.file
            /\ curhdu' = o.cur
            /\ call' = [op |-> "open", args |-> <<f>>, ret |-> o]
    /\ UNCHANGED <<impl, closeApplied>>

\* close(handle)
Close ==
    /\ res # "null"
    /\ closeApplied < MaxCloses
    /\ \E o \in fits_close_file_wrapper :
         /\ res' = o.res
         /\ closeApplied' = closeApplied + (IF o.applied \in {"live", "freed"} THEN 1 ELSE 0)
         /\ call' = [op |-> "close", args |-> <<>>, ret |-> o]
    /\ UNCHANGED <<impl, file, curhdu>>

\* hduCount(handle)
HduCount ==
    /\ res # "null"
    /\ \E o \in fits_get_num_hdus_wrapper :
         /\ curhdu' = o.cur
         /\ call' = [op |-> "hduCount", args |-> <<>>, ret |-> o]
    /\ UNCHANGED <<impl, file, res, closeApplied>>

\* seek(handle, index)
Seek ==
    /\ res # "null"
    /\ \E hdunum \in HduArgs :
         \E o \in fits_movabs_hdu_wrapper(hdunum) :
            /\ curhdu' = o.cur
            /\ call' = [op |-> "seek", args |-> <<hdunum>>, ret |-> o]
    /\ UNCHANGED <<impl, file, res, closeApplied>>

\* headerKeyCount(handle)
HeaderKeyCount ==
    /\ res # "null"
    /\ \E o \in fits_get_hdrspace_wrapper :
         /\ curhdu' = o.cur
         /\ call' = [op |-> "headerKeyCount", args |-> <<>>, ret |-> o]
    /\ UNCHANGED <<impl, file, res, closeApplied>>

\* readKey(handle, ordinal)
ReadKey ==
    /\ res # "null"
    /\ \E nkey \in KeyArgs :
         \E o \in fits_read_keyn_wrapper(nkey) :
            /\ curhdu' = o.cur
            /\ call' = [op |-> "readKey", args |-> <<nkey>>, ret |-> o]
    /\ UNCHANGED <<impl, file, res, closeApplied>>

\* imageParameters(handle)
ImageParameters ==
    /\ res # "null"
    /\ \E maxdim \in MaxDimArgs :
         \E o \in fits_get_img_param_wrapper(maxdim) :
            /\ curhdu' = o.cur
            /\ call' = [op |-> "imageParameters", args |-> <<maxdim>>, ret |-> o]
    /\ UNCHANGED <<impl, file, res, closeApplied>>

PixelRead(naxis, firstPixel, elementCounts, defaults) ==
    /\ \E o \in fits_read_img_wrapper(naxis, firstPixel, elementCounts) :
         /\ curhdu' = o.cur
         /\ call' = [op |-> "readPixels",
                     args |-> <<naxis, firstPixel, elementCounts, defaults>>, ret |-> o]
    /\ UNCHANGED <<impl, file, res, closeApplied>>

\* readPixels(handle, datatype, firstPixel, elementCounts) with both given, one
\* entry per axis.  The CAstrophotoKit wrapper dereferences both arrays, so its
\* callers pass at least one entry.
ReadPixels ==
    /\ res # "null"
    /\ \E naxis \in NaxisArgs :
         /\ impl = "CAstrophotoKit" => naxis >= 1
         /\ \E a \in PixelArgs(Max(0, naxis)) :
               PixelRead(naxis, a[1], a[2], FALSE)

\* readPixels(handle, datatype) with firstPixel and elementCounts omitted:
\* all ones, and the axis lengths of the current image
ReadPixelsDefault ==
    /\ res = "live"
    /\ CHDU.type = "image"
    /\ impl = "CAstrophotoKit" => Len(CHDU.naxes) >= 1
    /\ PixelRead(Len(CHDU.naxes), Ones(Len(CHDU.naxes)), CHDU.naxes, TRUE)

Next ==
    \/ Open
    \/ Close
    \/ HduCount
    \/ Seek
    \/ HeaderKeyCount
    \/ ReadKey
    \/ ImageParameters
    \/ ReadPixels
    \/ ReadPixelsDefault

Spec == Init /\ [][Next]_vars

----------------------------------------------------------------------------
(* Claims *)

HandleOps == {"hduCount", "seek", "headerKeyCount", "readKey", "imageParameters", "readPixels"}

\* C1: close is idempotent: the first close releases the resource, every later
\* close on the same handle returns success without reaching the engine, so the
\* engine's close primitive is applied to the resource at most once.
C1_CloseAppliedOnce ==
    /\ closeApplied <= 1
    /\ call.op = "close" => call.ret.status = "OK" /\ res = "freed"

\* C2: an operation invoked on a closed handle fails with HandleClosed and does
\* not reach the engine with the released resource.
C2_ClosedHandleRejects ==
    (res = "freed" /\ call.op \in HandleOps) =>
        /\ translate(call.op, call.ret.status) = "HandleClosed"
        /\ call.ret.applied # "freed"

C4_OnlySeekMovesCursor ==
    [][(res = "live" /\ call'.op \in HandleOps \ {"seek"}) => curhdu' = curhdu]_vars

\* C4 witness: a header count has run with the cursor away from the primary HDU
C4_Witness ==
    /\ res = "live"
    /\ call.op = "headerKeyCount"
    /\ call.ret.status = "OK"
    /\ curhdu = 3

\* C5: on a two-axis image [W, H], readPixels with the default arguments asks
\* the decoder for W * H elements and, when it succeeds, returns W * H elements.
C5_DefaultReadIsWholeImage ==
    (res = "live" /\ call.op = "readPixels" /\ call.args[4] /\ Len(CHDU.naxes) = 2) =>
        /\ call.ret.nelements = CHDU.naxes[1] * CHDU.naxes[2]
        /\ call.ret.status = "OK" => call.ret.filled = CHDU.naxes[1] * CHDU.naxes[2]

\* C6: when the decoder reports a non-zero status, the caller's buffer holds no
\* value written by the failed read.
C6_NoPartialBuffer ==
    (call.op = "readPixels" /\ call.ret.status # "OK") => call.ret.filled = 0

\* does some start or count, or the product of the counts, not fit long?
Overflows(firstPixel, elementCounts) ==
    \/ \E i \in 1..Len(firstPixel) : ~FitsLong(firstPixel[i])
    \/ \E i \in 1..Len(elementCounts) : ~FitsLong(elementCounts[i])
    \/ ~FitsLong(Product(elementCounts))

\* C7: a readPixels whose start, counts or product of counts does not fit the
\* decoder's long fails with ReadFailed and the decoder is not called.
C7_OverflowFailsExplicitly ==
    (res = "live" /\ impl = "CCFITSIO" /\ call.op = "readPixels"
        /\ Overflows(call.args[2], call.args[3])) =>
        /\ translate("readPixels", call.ret.status) = "ReadFailed"
        /\ call.ret.applied # "live"

\* C8: the CCFITSIO pixel-read wrapper calls the decoder with the product of
\* the first min(naxis, 3) counts and with the 3-entry start whose first
\* min(naxis, 3) entries are those of firstPixel and whose other entries are 1.
C8_DecoderArguments ==
    (impl = "CCFITSIO" /\ call.op = "readPixels") =>
        LET d == Max(0, Min(call.args[1], 3))
        IN  /\ call.ret.nelements = Product(SubSeq(call.args[3], 1, d))
            /\ call.ret.start = [i \in 1..3 |-> IF i <= d THEN call.args[2][i] ELSE 1]

\* C9: imageParameters never has the engine write more than MAX_AXES axis
\* lengths into the wrapper's local array.
C9_LocalArrayBounded ==
    call.op = "imageParameters" => call.ret.asked <= MAX_AXES

\* C10: every axis length imageParameters copies to the caller was written by
\* the engine during that call.
C10_NoUninitialisedCopy ==
    call.op = "imageParameters" => call.ret.uninit = {}

====
